---- MODULE Spec2Model ----
(***************************************************************************)
(* A model of the geoguessr-agent scoring pipeline: the haversine distance *)
(* and score prediction of scorer.py, GameResults.save_round_results, the  *)
(* object deduplicator of main.py / vlm.py and the image-count check of    *)
(* the two location-identification backends of vlm.py.                     *)
(*                                                                         *)
(* Floating point is modelled in fixed point.  An angle in radians, a sine *)
(* or cosine and the value of exp are integers in units of 2^-28 (ONE is   *)
(* 1.0).  Coordinates are integers in millidegrees, distances integers in  *)
(* decimetres (0.0001 km).  Where the code squares a sine the product is   *)
(* kept exactly, as a two-limb number <<hi, lo>> = hi * 2^28 + lo, so that *)
(* the square of a very small sine is not lost.  On the inputs of this     *)
(* module the predicted scores agree with CPython's to within one point.   *)
(***************************************************************************)
EXTENDS Integers, Sequences, FiniteSets, TLC

(***************************************************************************)
(* Fixed-point arithmetic standing for Python's float operations.          *)
(***************************************************************************)
HALF == 2^14
ONE == 2^28

Abs(n) == IF n < 0 THEN -n ELSE n

\* a * b / 2^28 for 0 <= a, b < 2^31, without leaving 32 bits.
FxMul(a, b) ==
    LET ah == a \div HALF
        al == a % HALF
        bh == b \div HALF
        bl == b % HALF
    IN  ah * bh + (ah * bl + al * bh + (al * bl) \div HALF) \div HALF

\* The exact product a * b of 0 <= a, b <= 2^28 as <<hi, lo>>.
WMul(a, b) ==
    LET ah == a \div HALF
        al == a % HALF
        bh == b \div HALF
        bl == b % HALF
        mid == ah * bl + al * bh
        low == (mid % HALF) * HALF + al * bl
    IN  << ah * bh + mid \div HALF + low \div ONE, low % ONE >>

WAdd(u, v) ==
    << u[1] + v[1] + (u[2] + v[2]) \div ONE, (u[2] + v[2]) % ONE >>

WLeq(u, v) == u[1] < v[1] \/ (u[1] = v[1] /\ u[2] <= v[2])

\* math.sqrt of a two-limb value w: the largest r <= 2^28 with r * r <= w,
\* found four bits at a time from the top.
RECURSIVE WSqrtDigits(_, _, _)
WSqrtDigits(w, r, unit) ==
    IF unit = 0 THEN r
    ELSE LET fits == {j \in 0..15 : WLeq(WMul(r + j * unit, r + j * unit), w)}
             top == CHOOSE j \in fits : \A k \in fits : k <= j
         IN  WSqrtDigits(w, r + top * unit, unit \div 16)

WSqrt(w) == IF WLeq(<<ONE, 0>>, w) THEN ONE ELSE WSqrtDigits(w, 0, 2^24)

\* num / den in units of 2^-28 for 0 <= num < den < 2^29, by long division,
\* two bits at a time.
RECURSIVE FxDivDigits(_, _, _, _)
FxDivDigits(rem, den, q, n) ==
    IF n = 0 THEN q
    ELSE FxDivDigits((4 * rem) % den, den, 4 * q + (4 * rem) \div den, n - 1)

FxDiv(num, den) == FxDivDigits(num, den, 0, 14)

(***************************************************************************)
(* The math library: radians, sin, cos, asin, exp.                          *)
(***************************************************************************)
PI == 843314857          \* pi * 2^28
HALF_PI == 421657428     \* pi / 2 * 2^28

\* math.radians of an angle in millidegrees: md * pi / 180000 * 2^28
\* (= md * 4685.08254).
Radians(md) ==
    LET m == Abs(md)
        r == m * 4685 + (m * 825) \div 10000
    IN  IF md < 0 THEN -r ELSE r

\* The Taylor series of sin and cos, term by term, for 0 <= x <= pi / 2 and
\* x2 = x * x: the k-th term is the one before times x2 / (d * (d + 1)),
\* with alternating sign, until the terms vanish.
RECURSIVE TrigTerms(_, _, _, _, _)
TrigTerms(x2, d, sign, term, sum) ==
    IF term = 0 \/ d > 20 THEN sum
    ELSE LET t == FxMul(x2, term) \div (d * (d + 1))
         IN  TrigTerms(x2, d + 2, -sign, t, sum + sign * t)

\* math.sin for -pi <= x <= pi.
Sin(x) ==
    LET a == Abs(x)
        r == IF a > HALF_PI THEN PI - a ELSE a
        s == TrigTerms(FxMul(r, r), 2, -1, r, r)
    IN  IF x < 0 THEN -s ELSE s

\* math.cos for -pi <= x <= pi.
Cos(x) ==
    LET a == Abs(x)
        r == IF a > HALF_PI THEN PI - a ELSE a
        c == TrigTerms(FxMul(r, r), 1, -1, ONE, ONE)
    IN  IF a > HALF_PI THEN -c ELSE c

\* The Taylor series of asin for 0 <= h <= 1/2 and h2 = h * h: the k-th term
\* is the one before times h2 * (2k - 1)^2 / (2k * (2k + 1)).
RECURSIVE AsinTerms(_, _, _, _)
AsinTerms(h2, k, term, sum) ==
    IF term = 0 \/ k > 14 THEN sum
    ELSE LET t == (((FxMul(h2, term) * (2 * k - 1)) \div (2 * k))
                     * (2 * k - 1)) \div (2 * k + 1)
         IN  AsinTerms(h2, k + 1, t, sum + t)

AsinSmall(h) == AsinTerms(FxMul(h, h), 1, h, h)

\* math.asin for 0 <= h <= 1; above 1/2 by
\* asin(h) = pi / 2 - 2 * asin(sqrt((1 - h) / 2)).
Asin(h) ==
    IF 2 * h <= ONE THEN AsinSmall(h)
    ELSE HALF_PI - 2 * AsinSmall(WSqrt(<<(ONE - h) \div 2,
                                         ((ONE - h) % 2) * (ONE \div 2)>>))

\* exp(-n) * 2^28 for the whole numbers n = 0 .. 9.
ExpNegInt(n) ==
    CASE n = 0 -> ONE
      [] n = 1 -> 98751886
      [] n = 2 -> 36328788
      [] n = 3 -> 13364614
      [] n = 4 -> 4916567
      [] n = 5 -> 1808704
      [] n = 6 -> 665385
      [] n = 7 -> 244781
      [] n = 8 -> 90050
      [] n = 9 -> 33128

\* exp(-f) for 0 <= f < 1: the series 1 - f + f^2 / 2 - f^3 / 6 + ...,
\* term by term.
RECURSIVE ExpNegTerms(_, _, _, _, _)
ExpNegTerms(f, k, sign, term, sum) ==
    IF term = 0 \/ k > 13 THEN sum
    ELSE LET t == FxMul(f, term) \div k
         IN  ExpNegTerms(f, k + 1, -sign, t, sum + sign * t)

\* math.exp(-(xi + xf / 2^28)) for a whole part xi >= 0 and a fraction
\* 0 <= xf < 2^28; below exp(-10) the value is taken as 0.
ExpNeg(xi, xf) ==
    IF xi > 9 THEN 0 ELSE FxMul(ExpNegInt(xi), ExpNegTerms(xf, 1, -1, ONE, ONE))

\* round(k * e / 2^28) for a whole number k < 2^16 and 0 <= e <= 2^28:
\* Python's round, half to even.
RoundScaled(k, e) ==
    LET t == k * (e \div HALF) + (k * (e % HALF)) \div HALF
        q == t \div HALF
        r == t % HALF
    IN  IF 2 * r > HALF \/ (2 * r = HALF /\ q % 2 = 1) THEN q + 1 ELSE q

(***************************************************************************)
(* scorer.py: the distance and the predicted score.                         *)
(***************************************************************************)
\* Earth's radius: 6371.0 km, in decimetres.
R == 6371 * 10000

Max(a, b) == IF a >= b THEN a ELSE b

\* What a call ends with: a returned value, or a raised error.
Return(v) == [raised |-> "none", value |-> v]
Raise(e) == [raised |-> e]

\* _haversine_distance, in decimetres, of coordinates in millidegrees.  A
\* latitude is within [-90, 90] degrees, so its cosine is not negative.
haversine_distance(lat1, lng1, lat2, lng2) ==
    LET rlat1 == Radians(lat1)
        rlng1 == Radians(lng1)
        rlat2 == Radians(lat2)
        rlng2 == Radians(lng2)
        dlat == rlat2 - rlat1
        dlng == rlng2 - rlng1
        sdlat == Abs(Sin(Abs(dlat) \div 2))
        sdlng == Abs(Sin(Abs(dlng) \div 2))
        coscos == FxMul(Max(0, Cos(rlat1)), Max(0, Cos(rlat2)))
        a == WAdd(WMul(sdlat, sdlat), WMul(FxMul(coscos, sdlng), sdlng))
        c == 2 * Asin(WSqrt(a))
    IN  FxMul(R, c)

\* predict_score with int() for round(): the score is truncated.
predict_score_truncated(game_state, answer_lat, answer_lng, guess_lat, guess_lng) ==
    LET guessed_distance == haversine_distance(answer_lat, answer_lng,
                                               guess_lat, guess_lng)
        map_size == haversine_distance(game_state.bounds.min.lat,
                                       game_state.bounds.min.lng,
                                       game_state.bounds.max.lat,
                                       game_state.bounds.max.lng)
        xi == (10 * guessed_distance) \div map_size
        xf == FxDiv((10 * guessed_distance) % map_size, map_size)
    IN  IF map_size = 0 THEN Raise("ZeroDivisionError")
        ELSE Return((5000 * (ExpNeg(xi, xf) \div HALF)) \div HALF)

\* predict_score with the quotient upside down: map_size / guessed_distance.
predict_score_inverted(game_state, answer_lat, answer_lng, guess_lat, guess_lng) ==
    LET guessed_distance == haversine_distance(answer_lat, answer_lng,
                                               guess_lat, guess_lng)
        map_size == haversine_distance(game_state.bounds.min.lat,
                                       game_state.bounds.min.lng,
                                       game_state.bounds.max.lat,
                                       game_state.bounds.max.lng)
        xi == map_size \div guessed_distance
        xf == FxDiv(map_size % guessed_distance, guessed_distance)
    IN  IF guessed_distance = 0 THEN Raise("ZeroDivisionError")
        ELSE Return(RoundScaled(5000, ExpNeg(IF xi > 9 THEN 10 ELSE 10 * xi, 0)))

\* predict_score with a guard that answers 0 on a map of size 0.
predict_score_guarded(game_state, answer_lat, answer_lng, guess_lat, guess_lng) ==
    LET guessed_distance == haversine_distance(answer_lat, answer_lng,
                                               guess_lat, guess_lng)
        map_size == haversine_distance(game_state.bounds.min.lat,
                                       game_state.bounds.min.lng,
                                       game_state.bounds.max.lat,
                                       game_state.bounds.max.lng)
        xi == (10 * guessed_distance) \div map_size
        xf == FxDiv((10 * guessed_distance) % map_size, map_size)
    IN  IF map_size = 0 THEN Return(0)
        ELSE Return(RoundScaled(5000, ExpNeg(xi, xf)))

\* round(5000 * math.exp(-10 * guessed_distance_km / map_size_km)); the
\* division raises ZeroDivisionError when the map size is 0.
predict_score(game_state, answer_lat, answer_lng, guess_lat, guess_lng) ==
    LET guessed_distance == haversine_distance(answer_lat, answer_lng,
                                               guess_lat, guess_lng)
        map_size == haversine_distance(game_state.bounds.min.lat,
                                       game_state.bounds.min.lng,
                                       game_state.bounds.max.lat,
                                       game_state.bounds.max.lng)
        xi == (10 * guessed_distance) \div map_size
        xf == FxDiv((10 * guessed_distance) % map_size, map_size)
    IN  IF map_size = 0 THEN Raise("ZeroDivisionError")
        ELSE Return(RoundScaled(5000, ExpNeg(xi, xf)))

\* calculate_distance_km
calculate_distance_km(lat1, lng1, lat2, lng2) ==
    haversine_distance(lat1, lng1, lat2, lng2)

(***************************************************************************)
(* geoguessr.py: the game state the scorer reads.                           *)
(***************************************************************************)
Round(lat, lng) == [lat |-> lat, lng |-> lng]
Bounds(min, max) == [min |-> min, max |-> max]
GameState(rounds, bounds) == [rounds |-> rounds, bounds |-> bounds]

(***************************************************************************)
(* Outcomes that carry the message of the exception.                        *)
(***************************************************************************)
RaiseMsg(e, message) == [raised |-> e, message |-> message]
Returned(r) == r.raised = "none"
NotCalled == [raised |-> "not called"]

(***************************************************************************)
(* main.py and vlm.py: deduplicate_interesting_objects.                     *)
(***************************************************************************)
InterestingObject(x, y, name) == [x |-> x, y |-> y, name |-> name]

\* math.dist(p, q) < limit for integer pixel coordinates and limit: the
\* square root of an integer is below limit exactly when the integer is
\* below limit * limit.
dist_below(p, q, limit) ==
    (p.x - q.x) * (p.x - q.x) + (p.y - q.y) * (p.y - q.y) < limit * limit

\* The inner loop as it would be with <= 250.
is_duplicate_inclusive(obj, picked_objects) ==
    \E k \in 1..Len(picked_objects) :
        \/ dist_below(obj, picked_objects[k], 250)
        \/   (obj.x - picked_objects[k].x) * (obj.x - picked_objects[k].x)
           + (obj.y - picked_objects[k].y) * (obj.y - picked_objects[k].y)
           = 250 * 250

\* The inner loop: for picked_obj in picked_objects, break at the first one
\* nearer than 250.
is_duplicate(obj, picked_objects) ==
    \E k \in 1..Len(picked_objects) : dist_below(obj, picked_objects[k], 250)

\* The outer loop from objects[i] on.
RECURSIVE DedupLoop(_, _, _)
DedupLoop(objects, i, picked_objects) ==
    IF i > Len(objects) THEN picked_objects
    ELSE DedupLoop(objects, i + 1,
                   IF ~is_duplicate(objects[i], picked_objects)
                   THEN Append(picked_objects, objects[i])
                   ELSE picked_objects)

\* The filter as it would be if an object were compared with the object
\* before it in the input only.
RECURSIVE DedupPreviousLoop(_, _, _)
DedupPreviousLoop(objects, i, picked_objects) ==
    IF i > Len(objects) THEN picked_objects
    ELSE DedupPreviousLoop(objects, i + 1,
                           IF i = 1 \/ ~dist_below(objects[i], objects[i - 1], 250)
                           THEN Append(picked_objects, objects[i])
                           ELSE picked_objects)
deduplicate_previous_only(objects) == DedupPreviousLoop(objects, 1, << >>)

\* main.deduplicate_interesting_objects
deduplicate_interesting_objects(objects) == DedupLoop(objects, 1, << >>)

\* vlm.deduplicate_interesting_objects as it would be if the early return
\* took every input of up to two objects.
vlm_deduplicate_short_return(objects) ==
    IF Len(objects) <= 2 THEN objects
    ELSE DedupLoop(objects, 1, << >>)

\* vlm.deduplicate_interesting_objects: the same loops after an early return
\* of an empty input.
vlm_deduplicate_interesting_objects(objects) ==
    IF Len(objects) = 0 THEN objects
    ELSE DedupLoop(objects, 1, << >>)

(***************************************************************************)
(* vlm.py: identify_location_o1 and identify_location_gpt4o.  The reply of  *)
(* the inference service is an input: the client raises, or there is a      *)
(* message content that json.loads parses or rejects.                       *)
(***************************************************************************)
IdentifiedLocation(country, latitude, longitude) ==
    [explanation |-> "seen", country |-> country, region |-> "",
     latitude |-> latitude, longitude |-> longitude]

json_loads(content) ==
    IF content.json THEN Return(content.value) ELSE Raise("JSONDecodeError")

ChatRequest(model, images_base64) == [model |-> model, images |-> images_base64]

\* What a call did: the requests it sent and how it ended.
Call(sent, result) == [sent |-> sent, result |-> result]

\* ValueError(f"At least 3 images are required, got: {n}")
TooFewImages(n) ==
    RaiseMsg("ValueError", << "At least 3 images are required, got: ", n >>)

\* identify_location_o1 as it would be if it asked for two images.
identify_location_o1_two(images_base64, response) ==
    IF Len(images_base64) < 2
    THEN Call(<< >>, TooFewImages(Len(images_base64)))
    ELSE Call(<< ChatRequest("o1-2024-12-17", images_base64) >>,
              IF Returned(response) THEN json_loads(response.value) ELSE response)

identify_location_o1(images_base64, response) ==
    IF Len(images_base64) < 3
    THEN Call(<< >>, TooFewImages(Len(images_base64)))
    ELSE Call(<< ChatRequest("o1-2024-12-17", images_base64) >>,
              IF Returned(response) THEN json_loads(response.value) ELSE response)

identify_location_gpt4o(images_base64, response) ==
    IF Len(images_base64) < 3
    THEN Call(<< >>, TooFewImages(Len(images_base64)))
    ELSE Call(<< ChatRequest("gpt-4o-2024-08-06", images_base64) >>,
              IF Returned(response) THEN json_loads(response.value) ELSE response)

(***************************************************************************)
(* scorer.py: GameResults.                                                  *)
(***************************************************************************)
LocationGuess(latitude, longitude, score, distance_km, explanation) ==
    [latitude |-> latitude, longitude |-> longitude, score |-> score,
     distance_km |-> distance_km, explanation |-> explanation]

RoundResult(round_number, gpt4o_guess, o1_guess, actual_location) ==
    [round_number |-> round_number, gpt4o_guess |-> gpt4o_guess,
     o1_guess |-> o1_guess, actual_location |-> actual_location]

GameResults(rounds, total_distance_gpt4o, total_distance_o1) ==
    [rounds |-> rounds, total_distance_gpt4o |-> total_distance_gpt4o,
     total_distance_o1 |-> total_distance_o1]

\* list[i] of Python, i counted from 0 and from the end when negative.
ListIndex(list, i) ==
    IF 0 <= i /\ i < Len(list) THEN Return(list[i + 1])
    ELSE IF i < 0 /\ -Len(list) <= i THEN Return(list[Len(list) + i + 1])
    ELSE Raise("IndexError")

\* location.get("explanation", "")
GetExplanation(location) ==
    IF "explanation" \in DOMAIN location THEN location.explanation ELSE ""

\* What _check_score_prediction did: how it ended, and its locals.
Checked(outcome, answer_coords, predicted_score) ==
    [outcome |-> outcome, answer_coords |-> answer_coords,
     predicted_score |-> predicted_score]

Mismatch == RaiseMsg("ValueError", "Score prediction mismatch!")

\* scorer.py:126-131 as it would be if no difference were tolerated.
CompareScoresStrict(answer_coords, predicted_score, actual_score) ==
    IF ~Returned(predicted_score)
    THEN Checked(predicted_score, answer_coords, predicted_score)
    ELSE IF Abs(predicted_score.value - actual_score) > 0
    THEN Checked(Mismatch, answer_coords, predicted_score)
    ELSE Checked(Return("None"), answer_coords, predicted_score)

\* score_diff = abs(predicted_score - actual_score); raise if score_diff > 1.
\* An error of predict_score ends the validation before this.
CompareScores(answer_coords, predicted_score, actual_score) ==
    IF ~Returned(predicted_score)
    THEN Checked(predicted_score, answer_coords, predicted_score)
    ELSE IF Abs(predicted_score.value - actual_score) > 1
    THEN Checked(Mismatch, answer_coords, predicted_score)
    ELSE Checked(Return("None"), answer_coords, predicted_score)

\* GameResults._check_score_prediction
check_score_prediction(self, game_state, predicted_lat, predicted_lng, actual_score) ==
    LET answer_coords == ListIndex(game_state.rounds, -1)
    IN  IF ~Returned(answer_coords)
        THEN Checked(answer_coords, NotCalled, NotCalled)
        ELSE CompareScores(answer_coords.value,
                           predict_score(game_state,
                                         answer_coords.value.lat,
                                         answer_coords.value.lng,
                                         predicted_lat, predicted_lng),
                           actual_score)

\* What save_round_results did: the GameResults it leaves, how it ended, and
\* what its call of _check_score_prediction did.
Saved(self, result, check) == [self |-> self, result |-> result, check |-> check]

\* The append as it would be if the o1 distance went to both totals.
AppendRoundOneTotal(self, round_result) ==
    GameResults(Append(self.rounds, round_result),
                self.total_distance_gpt4o + round_result.o1_guess.distance_km,
                self.total_distance_o1 + round_result.o1_guess.distance_km)

\* self.rounds.append(round_result) and the two additions to the totals.
AppendRound(self, round_result) ==
    GameResults(Append(self.rounds, round_result),
                self.total_distance_gpt4o + round_result.gpt4o_guess.distance_km,
                self.total_distance_o1 + round_result.o1_guess.distance_km)

\* The end of save_round_results: the validation error, or return round_result.
CheckAndReturn(self, round_result, check) ==
    IF ~Returned(check.outcome) THEN Saved(self, check.outcome, check)
    ELSE Saved(self, Return(round_result), check)

\* save_round_results from the append on.
SaveRound(self, game_state, gpt4o_location, actual_score, round_result) ==
    CheckAndReturn(AppendRound(self, round_result), round_result,
                   check_score_prediction(AppendRound(self, round_result),
                                          game_state,
                                          gpt4o_location.latitude,
                                          gpt4o_location.longitude,
                                          actual_score))

\* The RoundResult as it would be if both guesses carried the predicted
\* o1 score.
BuildRoundPredicted(self, game_state, round_number, gpt4o_location, o1_location, actual_score, actual_coords, o1_score) ==
    IF ~Returned(o1_score) THEN Saved(self, o1_score, NotCalled)
    ELSE SaveRound(self, game_state, gpt4o_location, actual_score,
             RoundResult(round_number,
                 LocationGuess(gpt4o_location.latitude, gpt4o_location.longitude,
                               o1_score.value,
                               calculate_distance_km(actual_coords.lat,
                                                     actual_coords.lng,
                                                     gpt4o_location.latitude,
                                                     gpt4o_location.longitude),
                               GetExplanation(gpt4o_location)),
                 LocationGuess(o1_location.latitude, o1_location.longitude,
                               o1_score.value,
                               calculate_distance_km(actual_coords.lat,
                                                     actual_coords.lng,
                                                     o1_location.latitude,
                                                     o1_location.longitude),
                               GetExplanation(o1_location)),
                 actual_coords))

\* save_round_results from o1_score on: the two LocationGuess objects and
\* the RoundResult.
BuildRound(self, game_state, round_number, gpt4o_location, o1_location, actual_score, actual_coords, o1_score) ==
    IF ~Returned(o1_score) THEN Saved(self, o1_score, NotCalled)
    ELSE SaveRound(self, game_state, gpt4o_location, actual_score,
             RoundResult(round_number,
                 LocationGuess(gpt4o_location.latitude, gpt4o_location.longitude,
                               actual_score,
                               calculate_distance_km(actual_coords.lat,
                                                     actual_coords.lng,
                                                     gpt4o_location.latitude,
                                                     gpt4o_location.longitude),
                               GetExplanation(gpt4o_location)),
                 LocationGuess(o1_location.latitude, o1_location.longitude,
                               o1_score.value,
                               calculate_distance_km(actual_coords.lat,
                                                     actual_coords.lng,
                                                     o1_location.latitude,
                                                     o1_location.longitude),
                               GetExplanation(o1_location)),
                 actual_coords))

\* GameResults.save_round_results
save_round_results(self, game_state, round_number, gpt4o_location, o1_location, actual_score) ==
    LET actual_coords == ListIndex(game_state.rounds, round_number - 1)
    IN  IF ~Returned(actual_coords) THEN Saved(self, actual_coords, NotCalled)
        ELSE BuildRound(self, game_state, round_number, gpt4o_location,
                        o1_location, actual_score, actual_coords.value,
                        predict_score(game_state,
                                      actual_coords.value.lat,
                                      actual_coords.value.lng,
                                      o1_location.latitude,
                                      o1_location.longitude))

(***************************************************************************)
(* output.py: the statistics of one game and of several games.  A float    *)
(* quotient is kept as the fraction it is the value of.                     *)
(***************************************************************************)
\* sum(xs)
RECURSIVE sum(_)
sum(xs) == IF Len(xs) = 0 THEN 0 ELSE Head(xs) + sum(Tail(xs))

\* sorted(xs), by insertion: xs[1..n] sorted and then xs[n+1] put in place.
RECURSIVE sorted(_)
sorted(xs) ==
    IF Len(xs) = 0 THEN << >>
    ELSE LET rest == sorted(SubSeq(xs, 1, Len(xs) - 1))
             x == xs[Len(xs)]
             below == Cardinality({i \in 1..Len(rest) : rest[i] <= x})
         IN  SubSeq(rest, 1, below) \o << x >> \o SubSeq(rest, below + 1, Len(rest))

\* min(xs) and max(xs) of a non-empty list
min(xs) == CHOOSE v \in {xs[i] : i \in 1..Len(xs)} : \A i \in 1..Len(xs) : v <= xs[i]
max(xs) == CHOOSE v \in {xs[i] : i \in 1..Len(xs)} : \A i \in 1..Len(xs) : v >= xs[i]

\* a / b of two numbers, as a float: the fraction, or ZeroDivisionError.
Fraction(a, b) == [num |-> a, den |-> b]

ModelStats(model_name, total_score, score_percentage, avg_score_per_game, median_distance_km, min_distance_km, max_distance_km) ==
    [model_name |-> model_name, total_score |-> total_score,
     score_percentage |-> score_percentage,
     avg_score_per_game |-> avg_score_per_game,
     median_distance_km |-> median_distance_km,
     min_distance_km |-> min_distance_km,
     max_distance_km |-> max_distance_km]

AggregateModelStats(stats, max_game_score, min_game_score) ==
    [model_name |-> stats.model_name, total_score |-> stats.total_score,
     score_percentage |-> stats.score_percentage,
     avg_score_per_game |-> stats.avg_score_per_game,
     median_distance_km |-> stats.median_distance_km,
     min_distance_km |-> stats.min_distance_km,
     max_distance_km |-> stats.max_distance_km,
     max_game_score |-> max_game_score, min_game_score |-> min_game_score]

\* [fn(r) for r in rounds]; a lambda is the function it computes.
MapRounds(fn, rounds) == [i \in 1..Len(rounds) |-> fn[rounds[i]]]

\* [sum(scores[i : i + 5]) for i in range(0, len(scores), 5)]
game_scores(scores) ==
    [k \in 1..((Len(scores) + 4) \div 5) |->
        sum(SubSeq(scores, 5 * (k - 1) + 1,
                   IF 5 * k < Len(scores) THEN 5 * k ELSE Len(scores)))]

\* ModelStats.from_rounds with the middle taken at (len - 1) // 2.
ModelStats_from_rounds_lower(model_name, rounds, score_fn, distance_fn, total_games) ==
    LET scores == MapRounds(score_fn, rounds)
        distances == MapRounds(distance_fn, rounds)
        total_score == sum(scores)
        total_possible == Len(rounds) * 5000
    IN  IF total_possible = 0 \/ total_games = 0 THEN Raise("ZeroDivisionError")
        ELSE Return(ModelStats(model_name, total_score,
                               Fraction(total_score * 100, total_possible),
                               Fraction(total_score, total_games),
                               sorted(distances)[(Len(distances) - 1) \div 2 + 1],
                               min(distances), max(distances)))

\* ModelStats.from_rounds.  Sequences count from 1: sorted(distances)[n // 2]
\* is the element at n \div 2 + 1.
ModelStats_from_rounds(model_name, rounds, score_fn, distance_fn, total_games) ==
    LET scores == MapRounds(score_fn, rounds)
        distances == MapRounds(distance_fn, rounds)
        total_score == sum(scores)
        total_possible == Len(rounds) * 5000
    IN  IF total_possible = 0 \/ total_games = 0 THEN Raise("ZeroDivisionError")
        ELSE Return(ModelStats(model_name, total_score,
                               Fraction(total_score * 100, total_possible),
                               Fraction(total_score, total_games),
                               sorted(distances)[Len(distances) \div 2 + 1],
                               min(distances), max(distances)))

\* AggregateModelStats.from_rounds with the middle taken at (len - 1) // 2.
AggregateModelStats_from_rounds_lower(model_name, rounds, score_fn, distance_fn, total_games) ==
    LET scores == MapRounds(score_fn, rounds)
        distances == MapRounds(distance_fn, rounds)
        total_score == sum(scores)
        total_possible == Len(rounds) * 5000
    IN  IF total_possible = 0 \/ total_games = 0 THEN Raise("ZeroDivisionError")
        ELSE Return(AggregateModelStats(
                 ModelStats(model_name, total_score,
                            Fraction(total_score * 100, total_possible),
                            Fraction(total_score, total_games),
                            sorted(distances)[(Len(distances) - 1) \div 2 + 1],
                            min(distances), max(distances)),
                 max(game_scores(scores)), min(game_scores(scores))))

\* AggregateModelStats.from_rounds
AggregateModelStats_from_rounds(model_name, rounds, score_fn, distance_fn, total_games) ==
    LET scores == MapRounds(score_fn, rounds)
        distances == MapRounds(distance_fn, rounds)
        total_score == sum(scores)
        total_possible == Len(rounds) * 5000
    IN  IF total_possible = 0 \/ total_games = 0 THEN Raise("ZeroDivisionError")
        ELSE Return(AggregateModelStats(
                 ModelStats(model_name, total_score,
                            Fraction(total_score * 100, total_possible),
                            Fraction(total_score, total_games),
                            sorted(distances)[Len(distances) \div 2 + 1],
                            min(distances), max(distances)),
                 max(game_scores(scores)), min(game_scores(scores))))

\* The rounds of a list, without repetition: the domain of a lambda.
RoundsOf(rounds) == {rounds[i] : i \in 1..Len(rounds)}

\* The two rows of a printed table, or the error of the first that raised.
StatsRows(gpt4o, o1) ==
    IF ~Returned(gpt4o) THEN gpt4o
    ELSE IF ~Returned(o1) THEN o1
    ELSE Return([gpt4o |-> gpt4o.value, o1 |-> o1.value])

\* print_game_results
print_game_results(game_results) ==
    StatsRows(ModelStats_from_rounds("GPT-4o", game_results.rounds,
                  [r \in RoundsOf(game_results.rounds) |-> r.gpt4o_guess.score],
                  [r \in RoundsOf(game_results.rounds) |-> r.gpt4o_guess.distance_km],
                  1),
              ModelStats_from_rounds("o1", game_results.rounds,
                  [r \in RoundsOf(game_results.rounds) |-> r.o1_guess.score],
                  [r \in RoundsOf(game_results.rounds) |-> r.o1_guess.distance_km],
                  1))

\* [r for game in all_games for r in game.rounds]
RECURSIVE all_rounds(_)
all_rounds(all_games) ==
    IF Len(all_games) = 0 THEN << >>
    ELSE Head(all_games).rounds \o all_rounds(Tail(all_games))

\* print_aggregate_results from all_rounds on.
AggregateRows(rounds, total_games) ==
    StatsRows(AggregateModelStats_from_rounds("GPT-4o", rounds,
                  [r \in RoundsOf(rounds) |-> r.gpt4o_guess.score],
                  [r \in RoundsOf(rounds) |-> r.gpt4o_guess.distance_km],
                  total_games),
              AggregateModelStats_from_rounds("o1", rounds,
                  [r \in RoundsOf(rounds) |-> r.o1_guess.score],
                  [r \in RoundsOf(rounds) |-> r.o1_guess.distance_km],
                  total_games))

\* print_aggregate_results
print_aggregate_results(all_games) ==
    AggregateRows(all_rounds(all_games), Len(all_games))

(***************************************************************************)
(* geoguessr.py: the game API.  A page is modelled by the responses its     *)
(* request context gives to the requests sent, in order; a call is what it  *)
(* sent, the texts it handed to _parse_game_state and how it ended.         *)
(***************************************************************************)
Score(amount, unit, percentage) ==
    [amount |-> amount, unit |-> unit, percentage |-> percentage]

Distance(meters, miles) == [meters |-> meters, miles |-> miles]

Guess(lat, lng, roundScore, roundScoreInPercentage, roundScoreInPoints, distance, distanceInMeters) ==
    [lat |-> lat, lng |-> lng, roundScore |-> roundScore,
     roundScoreInPercentage |-> roundScoreInPercentage,
     roundScoreInPoints |-> roundScoreInPoints, distance |-> distance,
     distanceInMeters |-> distanceInMeters]

Player(totalScore, totalDistance, totalDistanceInMeters, guesses) ==
    [totalScore |-> totalScore, totalDistance |-> totalDistance,
     totalDistanceInMeters |-> totalDistanceInMeters, guesses |-> guesses]

\* The GameState of the API, with all four fields.
ApiGameState(token, player, rounds, bounds) ==
    [token |-> token, player |-> player, rounds |-> rounds, bounds |-> bounds]

HttpRequest(method, url, data) == [method |-> method, url |-> url, data |-> data]
HttpResponse(ok, status, body) == [ok |-> ok, status |-> status, body |-> body]

ApiCall(sent, parsed, result) == [sent |-> sent, parsed |-> parsed, result |-> result]

\* d[key] for every key read: a missing one raises KeyError.
HasKeys(d, keys) == keys \subseteq DOMAIN d

\* Score(**d) and Distance(**d): a keyword that is no field, or a missing
\* field, raises TypeError.
ScoreOf(d) ==
    IF DOMAIN d = {"amount", "unit", "percentage"}
    THEN Return(Score(d.amount, d.unit, d.percentage))
    ELSE Raise("TypeError")

DistanceOf(d) ==
    IF DOMAIN d = {"meters", "miles"}
    THEN Return(Distance(d.meters, d.miles))
    ELSE Raise("TypeError")

GuessOf(g) ==
    IF ~HasKeys(g, {"lat", "lng", "roundScore", "roundScoreInPercentage",
                    "roundScoreInPoints", "distance", "distanceInMeters"})
    THEN Raise("KeyError")
    ELSE IF ~Returned(ScoreOf(g.roundScore)) THEN ScoreOf(g.roundScore)
    ELSE IF ~Returned(DistanceOf(g.distance)) THEN DistanceOf(g.distance)
    ELSE Return(Guess(g.lat, g.lng, ScoreOf(g.roundScore).value,
                      g.roundScoreInPercentage, g.roundScoreInPoints,
                      DistanceOf(g.distance).value, g.distanceInMeters))

PlayerOf(player_data) ==
    IF ~HasKeys(player_data, {"totalScore"}) THEN Raise("KeyError")
    ELSE IF ~Returned(ScoreOf(player_data.totalScore))
    THEN ScoreOf(player_data.totalScore)
    ELSE IF ~HasKeys(player_data, {"totalDistance"}) THEN Raise("KeyError")
    ELSE IF ~Returned(DistanceOf(player_data.totalDistance))
    THEN DistanceOf(player_data.totalDistance)
    ELSE IF ~HasKeys(player_data, {"totalDistanceInMeters", "guesses"})
    THEN Raise("KeyError")
    ELSE LET guesses == [i \in 1..Len(player_data.guesses) |->
                            GuessOf(player_data.guesses[i])]
         IN  IF \E i \in 1..Len(guesses) : ~Returned(guesses[i])
             THEN guesses[CHOOSE i \in 1..Len(guesses) :
                              /\ ~Returned(guesses[i])
                              /\ \A j \in 1..(i - 1) : Returned(guesses[j])]
             ELSE Return(Player(ScoreOf(player_data.totalScore).value,
                                DistanceOf(player_data.totalDistance).value,
                                player_data.totalDistanceInMeters,
                                [i \in 1..Len(guesses) |-> guesses[i].value]))

\* _parse_game_state
parse_game_state(response_text) ==
    LET data == json_loads(response_text)
    IN  IF ~Returned(data) THEN data
        ELSE IF ~HasKeys(data.value, {"player"}) THEN Raise("KeyError")
        ELSE IF ~Returned(PlayerOf(data.value.player))
        THEN PlayerOf(data.value.player)
        ELSE IF ~HasKeys(data.value, {"rounds"}) THEN Raise("KeyError")
        ELSE IF \E i \in 1..Len(data.value.rounds) :
                    ~HasKeys(data.value.rounds[i], {"lat", "lng"})
        THEN Raise("KeyError")
        ELSE IF ~HasKeys(data.value, {"bounds"}) THEN Raise("KeyError")
        ELSE IF DOMAIN data.value.bounds # {"min", "max"} THEN Raise("TypeError")
        ELSE IF ~HasKeys(data.value, {"token"}) THEN Raise("KeyError")
        ELSE Return(ApiGameState(
                 data.value.token,
                 PlayerOf(data.value.player).value,
                 [i \in 1..Len(data.value.rounds) |->
                      Round(data.value.rounds[i].lat, data.value.rounds[i].lng)],
                 Bounds(data.value.bounds.min, data.value.bounds.max)))

\* Exception(f"{what} Status: {response.status}, Response: {response.text()}")
Failed(what, response) ==
    RaiseMsg("Exception", << what, response.status, response.body >>)

GameUrl(game_token) == << "https://www.geoguessr.com/api/v3/games/", game_token >>

GuessData(game_token, lat, lng) ==
    [token |-> game_token, lat |-> lat, lng |-> lng, timedOut |-> FALSE,
     stepsCount |-> 0]

submit_guess(page, game_token, lat, lng) ==
    LET request == HttpRequest("POST", GameUrl(game_token),
                               GuessData(game_token, lat, lng))
        response == page[1]
    IN  IF ~response.ok
        THEN ApiCall(<< request >>, << >>,
                     Failed("Failed to get game state.", response))
        ELSE ApiCall(<< request >>, << response.body >>,
                     parse_game_state(response.body))

\* get_game_state as it would be if it sent the request again after a
\* response that is not ok.
get_game_state_again(page, game_token) ==
    LET request == HttpRequest("GET", GameUrl(game_token), << >>)
    IN  IF page[1].ok
        THEN ApiCall(<< request >>, << page[1].body >>,
                     parse_game_state(page[1].body))
        ELSE IF page[2].ok
        THEN ApiCall(<< request, request >>, << page[2].body >>,
                     parse_game_state(page[2].body))
        ELSE ApiCall(<< request, request >>, << >>,
                     Failed("Failed to get game state.", page[2]))

get_game_state(page, game_token) ==
    LET request == HttpRequest("GET", GameUrl(game_token), << >>)
        response == page[1]
    IN  IF ~response.ok
        THEN ApiCall(<< request >>, << >>,
                     Failed("Failed to get game state.", response))
        ELSE ApiCall(<< request >>, << response.body >>,
                     parse_game_state(response.body))

GameSettings ==
    [map |-> "world", type |-> "standard", timeLimit |-> 0,
     forbidMoving |-> TRUE, forbidZooming |-> FALSE, forbidRotating |-> FALSE]

\* start_new_game: response.json()["token"], with no _parse_game_state.
start_new_game(page) ==
    LET request == HttpRequest("POST", "https://www.geoguessr.com/api/v3/games",
                               GameSettings)
        response == page[1]
        data == json_loads(response.body)
    IN  IF ~response.ok
        THEN ApiCall(<< request >>, << >>, Failed("Failed to start game.", response))
        ELSE IF ~Returned(data) THEN ApiCall(<< request >>, << >>, data)
        ELSE IF ~HasKeys(data.value, {"token"})
        THEN ApiCall(<< request >>, << >>, Raise("KeyError"))
        ELSE ApiCall(<< request >>, << >>, Return(data.value.token))

(***************************************************************************)
(* main.py: the steps of main().  A screenshot is modelled by the view it   *)
(* shows: how many times the view was panned, and the object zoomed in on.  *)
(***************************************************************************)
Screenshot(pans, zoomed) == [pans |-> pans, zoomed |-> zoomed]

\* range(start, stop)
range(start, stop) ==
    [i \in 1..(IF stop > start THEN stop - start ELSE 0) |-> start + i - 1]

\* for round_number in range(1, 2)
MainRounds == range(1, 2)

\* for _ in range(5)
ExplorePans == range(0, 5)

\* vlm.identify_objects, from json.loads on: the reply's "objects".
identify_objects(image_base64, response) ==
    IF ~Returned(response) THEN response
    ELSE IF ~Returned(json_loads(response.value)) THEN json_loads(response.value)
    ELSE IF ~HasKeys(json_loads(response.value).value, {"objects"})
    THEN Raise("KeyError")
    ELSE Return(json_loads(response.value).value.objects)

\* for obj in interesting_objects: screenshots.append(zoom_in_screenshot(..))
ZoomLoop(pans, interesting_objects) ==
    [i \in 1..Len(interesting_objects) |->
         Screenshot(pans, << interesting_objects[i] >>)]

\* The iteration as it would be if every object found were zoomed in on.
ExploreStepAll(k, screenshots, full_screenshot, interesting_objects) ==
    IF ~Returned(interesting_objects) THEN interesting_objects
    ELSE Return(Append(screenshots, full_screenshot)
                    \o ZoomLoop(k, interesting_objects.value))

\* One iteration of explore_location's loop, given what identify_objects
\* found in the full screenshot.
ExploreStep(k, screenshots, full_screenshot, interesting_objects) ==
    IF ~Returned(interesting_objects) THEN interesting_objects
    ELSE Return(Append(screenshots, full_screenshot)
                    \o ZoomLoop(k, deduplicate_interesting_objects(
                                       interesting_objects.value)))

\* The loop of explore_location from its k-th iteration on.
RECURSIVE ExploreLoop(_, _, _)
ExploreLoop(responses, k, screenshots) ==
    IF k > Len(ExplorePans) \/ ~Returned(screenshots) THEN screenshots
    ELSE ExploreLoop(responses, k + 1,
             ExploreStep(k, screenshots.value, Screenshot(k, << >>),
                         identify_objects(Screenshot(k, << >>), responses[k])))

explore_location(responses) == ExploreLoop(responses, 1, Return(<< >>))

\* save_base64_images: one file per image, named by its index from 0.
save_base64_images(images, game_token, round_number, disk) ==
    IF ~Returned(disk) THEN disk
    ELSE Return([i \in 1..Len(images) |->
                     << "data", game_token, round_number, i - 1 >>])

\* obj.name of an object that has no attribute of that name
AttributeError(class, name) == RaiseMsg("AttributeError", << class, name >>)

\* _print_round_score: what it prints, or the error of the first read that
\* fails.
print_round_score(player, round_number, identified_location) ==
    IF "guesses" \notin DOMAIN player THEN AttributeError("GameState", "guesses")
    ELSE IF round_number - 1 >= Len(player.guesses) THEN Raise("IndexError")
    ELSE IF ~HasKeys(identified_location, {"latitude", "longitude", "explanation"})
    THEN Raise("KeyError")
    ELSE Return(<< round_number, identified_location.latitude,
                   identified_location.longitude,
                   identified_location.explanation,
                   player.guesses[round_number].roundScoreInPoints,
                   player.guesses[round_number].roundScoreInPercentage,
                   player.guesses[round_number].distance.meters.amount >>)

\* _print_final_score after get_game_state has returned.
PrintTotals(game_state) ==
    IF "totalScore" \notin DOMAIN game_state
    THEN AttributeError("GameState", "totalScore")
    ELSE IF "totalDistance" \notin DOMAIN game_state
    THEN AttributeError("GameState", "totalDistance")
    ELSE IF "guesses" \notin DOMAIN game_state
    THEN AttributeError("GameState", "guesses")
    ELSE Return(<< game_state.totalScore.amount, game_state.totalScore.percentage,
                   game_state.totalDistance.meters.amount >>)

\* _print_final_score
print_final_score(page, game_token) ==
    LET call == get_game_state(page, game_token)
    IN  IF ~Returned(call.result) THEN call
        ELSE ApiCall(call.sent, call.parsed, PrintTotals(call.result.value))

\* vlm.identify_location, which main calls and vlm.py does not define: the
\* identification step with its precondition of three images, answering
\* with the backend's IdentifiedLocation.
identify_location(images_base64, response) ==
    IF Len(images_base64) < 3
    THEN Call(<< >>, TooFewImages(Len(images_base64)))
    ELSE Call(<< ChatRequest("backend", images_base64) >>,
              IF Returned(response) THEN json_loads(response.value) ELSE response)

\* One entry of the record of main's steps.
Step(name, round_number, input, call) ==
    [name |-> name, round_number |-> round_number, input |-> input, call |-> call]

(***************************************************************************)
(* The inputs of predict_score: maps, true coordinates and guesses, in      *)
(* millidegrees.                                                            *)
(***************************************************************************)
\* Guesses lie 10^0 .. 10^(MaxScale - 1) millidegrees east of the answer.
MaxScale == 5

WorldBounds == Bounds(Round(-85000, -180000), Round(85000, 180000))
SquareBounds == Bounds(Round(0, 0), Round(10000, 10000))
CityBounds == Bounds(Round(48800, 2200), Round(48900, 2500))
PointBounds == Bounds(Round(10000, 20000), Round(10000, 20000))
BoundsSet == {WorldBounds, SquareBounds, CityBounds, PointBounds}

AnswerSet == {Round(5000, 5000), Round(48858, 2294)}
LatOffsets == {0, 1, 1000}
LngOffsets == {0} \cup {10^k : k \in 0..(MaxScale - 1)}
GuessesOf(answer) ==
    {Round(answer.lat + dlat, answer.lng + dlng) :
        dlat \in LatOffsets, dlng \in LngOffsets}

(***************************************************************************)
(* The inputs of deduplicate_interesting_objects: up to MaxObjects objects  *)
(* of a screenshot.  (250, 0) and (150, 200) are exactly 250 pixels from    *)
(* (0, 0), (249, 0) is a pixel nearer.                                      *)
(***************************************************************************)
MaxObjects == 4

ObjectSet ==
    {InterestingObject(0, 0, "a"), InterestingObject(10, 10, "b"),
     InterestingObject(1000, 1000, "c"), InterestingObject(0, 0, "c"),
     InterestingObject(250, 0, "b"), InterestingObject(150, 200, "a"),
     InterestingObject(249, 0, "c"), InterestingObject(200, 0, "a"),
     InterestingObject(400, 0, "b")}

RECURSIVE SeqsUpTo(_, _)
SeqsUpTo(S, n) ==
    IF n = 0 THEN {<< >>}
    ELSE LET shorter == SeqsUpTo(S, n - 1)
         IN  shorter \cup {Append(q, e) : q \in shorter, e \in S}

(***************************************************************************)
(* The inputs of identify_location_*: up to MaxImages screenshots and the   *)
(* reply of the inference service.                                          *)
(***************************************************************************)
MaxImages == 4

ImageSet == {"iVBORw0KGgo", "R0lGODlh"}

ResponseSet ==
    {Raise("APIError"),
     Return([json |-> FALSE]),
     Return([json |-> TRUE, value |-> IdentifiedLocation("France", 48858, 2294)])}

(***************************************************************************)
(* The inputs of save_round_results: a game of two rounds, a game of one,   *)
(* a game on a map of one point; guesses of the two models; the score the   *)
(* game reports.                                                            *)
(***************************************************************************)
MaxCalls == 2

Paris == Round(48858, 2294)
Lagos == Round(5000, 5000)

GameStateSet ==
    {GameState(<< Lagos, Paris >>, WorldBounds),
     GameState(<< Paris >>, WorldBounds),
     GameState(<< Lagos, Paris >>, PointBounds)}

RoundNumberSet == {1, 2}

\* << gpt4o_location, o1_location >>
LocationSet ==
    {<< [latitude |-> 48858, longitude |-> 2294, explanation |-> "Eiffel Tower"],
        [latitude |-> 5000, longitude |-> 5000] >>,
     << [latitude |-> 5000, longitude |-> 5000],
        [latitude |-> -40000, longitude |-> -170000, explanation |-> "sea"] >>}

ActualScoreSet == {5000, 4999, 4998, 377, 0}

(***************************************************************************)
(* The inputs of the statistics: up to MaxStatRounds recorded rounds, cut   *)
(* into games of one round or more.  Distances are 1.0, 2.0, 3.0 and 4.0    *)
(* km for gpt4o, and the scores of a game differ between the models.        *)
(***************************************************************************)
MaxStatRounds == 4

StatRound(gpt4o_score, gpt4o_km, o1_score, o1_km) ==
    RoundResult(1,
                LocationGuess(0, 0, gpt4o_score, gpt4o_km * 10000, ""),
                LocationGuess(0, 0, o1_score, o1_km * 10000, ""),
                Lagos)

StatRoundSet ==
    {StatRound(5000, 1, 378, 4), StatRound(0, 3, 5000, 2),
     StatRound(2500, 2, 100, 3), StatRound(1, 4, 0, 1)}

\* The GameResults that recorded these rounds.
GameOf(rounds) ==
    GameResults(rounds,
                sum([i \in 1..Len(rounds) |-> rounds[i].gpt4o_guess.distance_km]),
                sum([i \in 1..Len(rounds) |-> rounds[i].o1_guess.distance_km]))

\* rounds[from..] cut into games after each position of cuts.
RECURSIVE SplitGames(_, _, _)
SplitGames(rounds, cuts, from) ==
    IF from > Len(rounds) THEN << >>
    ELSE LET later == {c \in cuts : c >= from}
             to == IF later = {} THEN Len(rounds)
                   ELSE CHOOSE c \in later : \A d \in later : c <= d
         IN  << GameOf(SubSeq(rounds, from, to)) >> \o SplitGames(rounds, cuts, to + 1)

AllGamesSet ==
    UNION {{SplitGames(rounds, cuts, 1) : cuts \in SUBSET (1..(Len(rounds) - 1))} :
              rounds \in SeqsUpTo(StatRoundSet, MaxStatRounds)}

(***************************************************************************)
(* The inputs of main(): the responses of the game API (ok with a game      *)
(* state, ok with another document, not ok with and without a game state    *)
(* in the body), up to MaxResponses of them per call; what the object       *)
(* detection answers for each of the five views; the outcomes of the        *)
(* browser and the disk.                                                    *)
(***************************************************************************)
MaxResponses == 2

GuessData1 ==
    [lat |-> 48858, lng |-> 2294,
     roundScore |-> [amount |-> "4999", unit |-> "points", percentage |-> 99],
     roundScoreInPercentage |-> 99, roundScoreInPoints |-> 4999,
     distance |-> [meters |-> [amount |-> "0.1", unit |-> "km"],
                   miles |-> [amount |-> "0.06", unit |-> "miles"]],
     distanceInMeters |-> 100]

PlayerData ==
    [totalScore |-> [amount |-> "4999", unit |-> "points", percentage |-> 99],
     totalDistance |-> [meters |-> [amount |-> "0.1", unit |-> "km"],
                        miles |-> [amount |-> "0.06", unit |-> "miles"]],
     totalDistanceInMeters |-> 100,
     guesses |-> << GuessData1 >>]

GameBody ==
    [json |-> TRUE,
     value |-> [token |-> "tok", player |-> PlayerData,
                rounds |-> << [lat |-> 48858, lng |-> 2294, panoId |-> "p" ] >>,
                bounds |-> [min |-> [lat |-> -85000, lng |-> -180000],
                            max |-> [lat |-> 85000, lng |-> 180000]]]]

MessageBody == [json |-> TRUE, value |-> [message |-> "NotFound"]]

ApiResponseSet ==
    {HttpResponse(TRUE, 200, GameBody), HttpResponse(TRUE, 200, MessageBody),
     HttpResponse(FALSE, 500, GameBody), HttpResponse(FALSE, 401, MessageBody)}

PageSet == [1..MaxResponses -> ApiResponseSet]

DetectionSet ==
    {Raise("APIError"),
     Return([json |-> TRUE, value |-> [objects |-> << >>]]),
     Return([json |-> TRUE,
             value |-> [objects |-> << InterestingObject(0, 0, "a"),
                                       InterestingObject(10, 10, "b"),
                                       InterestingObject(1000, 1000, "c") >>]])}

DetectionsSet == [1..Len(ExplorePans) -> DetectionSet]

BrowserSet == {Return("ready"), Raise("TimeoutError")}
DiskSet == {Return("written"), Raise("OSError")}
CookiesSet == {Return("cookies"), Raise("FileNotFoundError")}

\* What main's call of vlm.identify_location may do: the attribute is
\* missing from vlm.py as it is, or the function is there and answers.
IdentifyOutcomes(images_base64) ==
    {Call(<< >>, AttributeError("vlm", "identify_location"))}
        \cup {identify_location(images_base64, response) : response \in ResponseSet}

EntrySet == {"main", "_print_final_score"}

VARIABLES
    sc_game_state,  \* predict_score's game_state
    sc_answer,      \* the true coordinate
    sc_guess,       \* two guesses for it
    sc_result,      \* what predict_score ended with for each, or NotCalled
    dd_objects,     \* the objects found in a screenshot
    dd_main,        \* what main.deduplicate_interesting_objects made of them
    dd_vlm,         \* what vlm.deduplicate_interesting_objects made of them
    dd_again,       \* what main's made of its own result
    il_backend,     \* the identify_location_* called last
    il_images,      \* its images_base64
    il_call,        \* what the call did, or NotCalled
    game_results,   \* the GameResults object
    gr_game_state,  \* the game it records
    gr_args,        \* the arguments of the last save_round_results
    gr_result,      \* how that call ended, or NotCalled
    gr_check,       \* what its _check_score_prediction did, or NotCalled
    gr_calls,       \* calls of save_round_results so far
    gr_returned,    \* calls of save_round_results that returned
    st_all_games,   \* the games whose statistics are printed
    st_game,        \* the game print_game_results printed last, 0 for none
    st_game_stats,  \* what print_game_results ended with, or NotCalled
    st_aggregate,   \* what print_aggregate_results ended with, or NotCalled
    mn_entry,               \* the function called: main, or _print_final_score
    mn_pc,                  \* the statement main is at
    mn_iter,                \* iterations of the round loop started
    mn_round_number,        \* main: round_number
    mn_game_token,          \* main: game_token
    mn_all_screenshots,     \* main: all_screenshots
    mn_identified_location, \* main: identified_location
    mn_player,              \* main: player
    mn_log,                 \* the steps taken so far, each with its outcome
    mn_result,              \* how the function called ended
    er_check,               \* a call of _check_score_prediction: arguments and outcome
    er_api,                 \* a call of a game API function: response and outcome
    er_identify             \* a call of identify_location_*: images and outcome

scoreVars == << sc_game_state, sc_answer, sc_guess, sc_result >>
dedupVars == << dd_objects, dd_main, dd_vlm, dd_again >>
identifyVars == << il_backend, il_images, il_call >>
resultsVars == << game_results, gr_game_state, gr_args, gr_result, gr_check,
                  gr_calls, gr_returned >>
statsVars == << st_all_games, st_game, st_game_stats, st_aggregate >>
mainVars == << mn_entry, mn_pc, mn_iter, mn_round_number, mn_game_token, mn_all_screenshots, mn_identified_location, mn_player, mn_log, mn_result >>
errorVars == << er_check, er_api, er_identify >>
vars == << scoreVars, dedupVars, identifyVars, resultsVars, statsVars, mainVars, errorVars >>

\* The parts of the program a specification leaves alone.
ScoreIdle ==
    /\ sc_game_state = GameState(<< >>, WorldBounds)
    /\ sc_answer = Lagos
    /\ sc_guess = [i \in 1..2 |-> Lagos]
    /\ sc_result = [i \in 1..2 |-> NotCalled]
DedupIdle ==
    /\ dd_objects = << >>
    /\ dd_main = NotCalled
    /\ dd_vlm = NotCalled
    /\ dd_again = NotCalled
IdentifyIdle ==
    /\ il_backend = "none"
    /\ il_images = << >>
    /\ il_call = NotCalled
ResultsIdle ==
    /\ game_results = GameResults(<< >>, 0, 0)
    /\ gr_game_state = GameState(<< >>, WorldBounds)
    /\ gr_args = NotCalled
    /\ gr_result = NotCalled
    /\ gr_check = NotCalled
    /\ gr_calls = 0
    /\ gr_returned = 0

StatsIdle ==
    /\ st_all_games = << >>
    /\ st_game = 0
    /\ st_game_stats = NotCalled
    /\ st_aggregate = NotCalled

MainIdle ==
    /\ mn_entry = "none"
    /\ mn_pc = "idle"
    /\ mn_iter = 0
    /\ mn_round_number = 0
    /\ mn_game_token = ""
    /\ mn_all_screenshots = << >>
    /\ mn_identified_location = NotCalled
    /\ mn_player = NotCalled
    /\ mn_log = << >>
    /\ mn_result = NotCalled

ErrorIdle ==
    /\ er_check = NotCalled
    /\ er_api = NotCalled
    /\ er_identify = NotCalled

(***************************************************************************)
(* ScoreSpec: predict_score on two guesses for one answer.                  *)
(***************************************************************************)
ScoreInit ==
    /\ sc_game_state \in {GameState(<< >>, b) : b \in BoundsSet}
    /\ sc_answer \in AnswerSet
    /\ sc_guess \in [1..2 -> GuessesOf(sc_answer)]
    /\ sc_result = [i \in 1..2 |-> NotCalled]
    /\ DedupIdle /\ IdentifyIdle /\ ResultsIdle /\ StatsIdle /\ MainIdle /\ ErrorIdle

\* predict_score(game_state, answer, guess i)
PredictScore(i) ==
    /\ sc_result[i] = NotCalled
    /\ sc_result' = [sc_result EXCEPT ![i] =
           predict_score(sc_game_state, sc_answer.lat, sc_answer.lng,
                         sc_guess[i].lat, sc_guess[i].lng)]
    /\ UNCHANGED << sc_game_state, sc_answer, sc_guess >>
    /\ UNCHANGED << dedupVars, identifyVars, resultsVars, statsVars, mainVars, errorVars >>

ScoreNext == \E i \in 1..2 : PredictScore(i)

ScoreSpec == ScoreInit /\ [][ScoreNext]_vars

(***************************************************************************)
(* DedupSpec: the objects of a screenshot are deduplicated by either copy   *)
(* of the function, and main's result is deduplicated once more.            *)
(***************************************************************************)
DedupInit ==
    /\ dd_objects \in SeqsUpTo(ObjectSet, MaxObjects)
    /\ dd_main = NotCalled
    /\ dd_vlm = NotCalled
    /\ dd_again = NotCalled
    /\ ScoreIdle /\ IdentifyIdle /\ ResultsIdle /\ StatsIdle /\ MainIdle /\ ErrorIdle

\* main.deduplicate_interesting_objects(objects)
DedupMain ==
    /\ dd_main = NotCalled
    /\ dd_main' = Return(deduplicate_interesting_objects(dd_objects))
    /\ UNCHANGED << dd_objects, dd_vlm, dd_again >>
    /\ UNCHANGED << scoreVars, identifyVars, resultsVars, statsVars, mainVars, errorVars >>

\* vlm.deduplicate_interesting_objects(objects)
DedupVlm ==
    /\ dd_vlm = NotCalled
    /\ dd_vlm' = Return(vlm_deduplicate_interesting_objects(dd_objects))
    /\ UNCHANGED << dd_objects, dd_main, dd_again >>
    /\ UNCHANGED << scoreVars, identifyVars, resultsVars, statsVars, mainVars, errorVars >>

\* main.deduplicate_interesting_objects(picked_objects)
DedupAgain ==
    /\ Returned(dd_main)
    /\ dd_again = NotCalled
    /\ dd_again' = Return(deduplicate_interesting_objects(dd_main.value))
    /\ UNCHANGED << dd_objects, dd_main, dd_vlm >>
    /\ UNCHANGED << scoreVars, identifyVars, resultsVars, statsVars, mainVars, errorVars >>

DedupNext == DedupMain \/ DedupVlm \/ DedupAgain

DedupSpec == DedupInit /\ [][DedupNext]_vars

(***************************************************************************)
(* IdentifySpec: calls of the two location identifiers.                     *)
(***************************************************************************)
IdentifyInit == IdentifyIdle /\ ScoreIdle /\ DedupIdle /\ ResultsIdle /\ StatsIdle /\ MainIdle /\ ErrorIdle

IdentifyLocationO1(images_base64, response) ==
    /\ il_backend' = "o1"
    /\ il_images' = images_base64
    /\ il_call' = identify_location_o1(images_base64, response)
    /\ UNCHANGED << scoreVars, dedupVars, resultsVars, statsVars, mainVars, errorVars >>

IdentifyLocationGpt4o(images_base64, response) ==
    /\ il_backend' = "gpt4o"
    /\ il_images' = images_base64
    /\ il_call' = identify_location_gpt4o(images_base64, response)
    /\ UNCHANGED << scoreVars, dedupVars, resultsVars, statsVars, mainVars, errorVars >>

IdentifyNext ==
    \E images_base64 \in SeqsUpTo(ImageSet, MaxImages), response \in ResponseSet :
        \/ IdentifyLocationO1(images_base64, response)
        \/ IdentifyLocationGpt4o(images_base64, response)

IdentifySpec == IdentifyInit /\ [][IdentifyNext]_vars

(***************************************************************************)
(* ResultsSpec: up to MaxCalls calls of save_round_results on one           *)
(* GameResults object.                                                      *)
(***************************************************************************)
SaveArgs(round_number, gpt4o_location, o1_location, actual_score) ==
    [round_number |-> round_number, gpt4o_location |-> gpt4o_location,
     o1_location |-> o1_location, actual_score |-> actual_score]

ResultsInit ==
    /\ game_results = GameResults(<< >>, 0, 0)
    /\ gr_game_state \in GameStateSet
    /\ gr_args = NotCalled
    /\ gr_result = NotCalled
    /\ gr_check = NotCalled
    /\ gr_calls = 0
    /\ gr_returned = 0
    /\ ScoreIdle /\ DedupIdle /\ IdentifyIdle /\ StatsIdle /\ MainIdle /\ ErrorIdle

SaveRoundResults(round_number, gpt4o_location, o1_location, actual_score) ==
    /\ gr_calls < MaxCalls
    /\ \E saved \in {save_round_results(game_results, gr_game_state,
                                         round_number, gpt4o_location,
                                         o1_location, actual_score)} :
           /\ game_results' = saved.self
           /\ gr_result' = saved.result
           /\ gr_check' = saved.check
           /\ gr_returned' = IF Returned(saved.result) THEN gr_returned + 1
                             ELSE gr_returned
    /\ gr_args' = SaveArgs(round_number, gpt4o_location, o1_location,
                           actual_score)
    /\ gr_calls' = gr_calls + 1
    /\ UNCHANGED gr_game_state
    /\ UNCHANGED << scoreVars, dedupVars, identifyVars, statsVars, mainVars, errorVars >>

ResultsNext ==
    \E round_number \in RoundNumberSet, locations \in LocationSet,
       actual_score \in ActualScoreSet :
        SaveRoundResults(round_number, locations[1], locations[2], actual_score)

ResultsSpec == ResultsInit /\ [][ResultsNext]_vars

(***************************************************************************)
(* The claims about GameResults, under ResultsSpec.                         *)
(***************************************************************************)
\* C1, as claimed: no partial RoundResult is recorded for a failed call, so
\* len(rounds) equals the number of save_round_results calls that returned.
C1_NoPartialRoundResult == Len(game_results.rounds) = gr_returned

\* C2: save_round_results ends with the mismatch error exactly when the
\* score its validation predicted and actual_score differ by more than 1; a
\* difference of 0 or 1 lets the call return.
C2_MismatchIffOffByMoreThanOne ==
    (gr_check # NotCalled /\ Returned(gr_check.predicted_score)) =>
        LET diff == Abs(gr_check.predicted_score.value - gr_args.actual_score)
        IN  /\ diff > 1 <=> gr_result = Mismatch
            /\ diff <= 1 <=> Returned(gr_result)

\* A call returned although the prediction was one point off.
C2_Witness ==
    /\ gr_check # NotCalled
    /\ Returned(gr_check.predicted_score)
    /\ Abs(gr_check.predicted_score.value - gr_args.actual_score) = 1
    /\ Returned(gr_result)

\* C3, as claimed: for round_number in 1..len(game_state.rounds) the answer
\* coordinate of the validation is game_state.rounds[round_number - 1], the
\* actual_location of the RoundResult just recorded.
C3_CheckUsesRecordedRound ==
    (/\ gr_check # NotCalled
     /\ gr_args.round_number \in 1..Len(gr_game_state.rounds)) =>
        /\ gr_check.answer_coords = gr_game_state.rounds[gr_args.round_number]
        /\ gr_check.answer_coords =
               game_results.rounds[Len(game_results.rounds)].actual_location

(***************************************************************************)
(* The claims about predict_score, under ScoreSpec.                         *)
(***************************************************************************)
\* distance_km(answer, guess i) and the map's diagonal.
GuessDistance(i) ==
    calculate_distance_km(sc_answer.lat, sc_answer.lng,
                          sc_guess[i].lat, sc_guess[i].lng)
MapSize ==
    haversine_distance(sc_game_state.bounds.min.lat, sc_game_state.bounds.min.lng,
                       sc_game_state.bounds.max.lat, sc_game_state.bounds.max.lng)

\* C4, as claimed: a returned score is 5000 if and only if the distance
\* between answer and guess is 0.
C4_FullScoreIffZeroDistance ==
    \A i \in 1..2 :
        Returned(sc_result[i]) =>
            (sc_result[i].value = 5000 <=> GuessDistance(i) = 0)

\* C4, amended: guess == answer scores exactly 5000 on a map of non-zero
\* size; a guess farther than map_size / 99000 scores strictly below 5000;
\* a guess within map_size / 101000 still rounds to 5000.
C4_FullScoreNearAnswer ==
    \A i \in 1..2 :
        /\ (MapSize # 0 /\ sc_guess[i] = sc_answer /\ sc_result[i] # NotCalled)
               => sc_result[i] = Return(5000)
        /\ Returned(sc_result[i]) =>
               /\ GuessDistance(i) = 0 => sc_result[i].value = 5000
               /\ GuessDistance(i) > MapSize \div 99000 => sc_result[i].value < 5000
               /\ GuessDistance(i) <= MapSize \div 101000 => sc_result[i].value = 5000

\* The exact guess scored 5000, and so did a guess a little off it.
C4_Witness ==
    /\ sc_guess[1] = sc_answer /\ sc_result[1] = Return(5000)
    /\ GuessDistance(2) > 0 /\ sc_result[2] = Return(5000)

\* C5: on a map of non-zero diagonal predict_score returns, and the score is
\* an integer from 0 to 5000.
C5_ScoreInRange ==
    \A i \in 1..2 :
        (MapSize # 0 /\ sc_result[i] # NotCalled) =>
            /\ Returned(sc_result[i])
            /\ sc_result[i].value \in 0..5000

\* Both ends of the range are returned.
C5_Witness ==
    /\ MapSize # 0
    /\ sc_result[1] = Return(5000)
    /\ sc_result[2] = Return(0)

\* C6: for fixed bounds and answer, the guess that is not farther does not
\* score less.
C6_ScoreMonotoneInDistance ==
    \A i, j \in 1..2 :
        (/\ Returned(sc_result[i])
         /\ Returned(sc_result[j])
         /\ GuessDistance(i) <= GuessDistance(j))
            => sc_result[i].value >= sc_result[j].value

\* A nearer guess scored strictly more than a farther one.
C6_Witness ==
    /\ Returned(sc_result[1])
    /\ Returned(sc_result[2])
    /\ 0 < GuessDistance(1)
    /\ GuessDistance(1) < GuessDistance(2)
    /\ sc_result[1].value > sc_result[2].value

\* C7: with bounds.min == bounds.max every call of predict_score ends in an
\* error, whatever the guess, and returns no score.
C7_ZeroMapSizeRaises ==
    \A i \in 1..2 :
        (sc_game_state.bounds.min = sc_game_state.bounds.max
         /\ sc_result[i] # NotCalled)
            => sc_result[i] = Raise("ZeroDivisionError")

\* The call raised for guess == answer on a map of one point.
C7_Witness ==
    /\ sc_game_state.bounds.min = sc_game_state.bounds.max
    /\ sc_guess[1] = sc_answer
    /\ sc_result[1] = Raise("ZeroDivisionError")

(***************************************************************************)
(* The claims about deduplicate_interesting_objects, under DedupSpec.       *)
(***************************************************************************)
\* The n-th index of K, counted from the least.
NthOf(K, n) == CHOOSE k \in K : Cardinality({i \in K : i < k}) = n - 1

\* The elements of xs at the indices K, in the order of xs.
KeptAt(xs, K) == [n \in 1..Cardinality(K) |-> xs[NthOf(K, n)]]

\* C8: the result is the input at the indices K, in input order, where an
\* index is in K if and only if its object is at least 250 pixels from the
\* object of every earlier index of K; names play no part.  The example
\* [(0,0,a),(10,10,b),(1000,1000,c)] gives [(0,0,a),(1000,1000,c)].
C8_GreedyFirstOccurrenceWins ==
    \A r \in {dd_main, dd_vlm} :
        Returned(r) =>
            /\ \E K \in SUBSET (1..Len(dd_objects)) :
                   /\ \A j \in 1..Len(dd_objects) :
                          j \in K <=>
                              \A i \in K :
                                  i < j =>
                                      (dd_objects[i].x - dd_objects[j].x) ^ 2
                                      + (dd_objects[i].y - dd_objects[j].y) ^ 2
                                      >= 250 ^ 2
                   /\ r.value = KeptAt(dd_objects, K)
            /\ dd_objects = << InterestingObject(0, 0, "a"),
                               InterestingObject(10, 10, "b"),
                               InterestingObject(1000, 1000, "c") >>
                   => r.value = << InterestingObject(0, 0, "a"),
                                   InterestingObject(1000, 1000, "c") >>

\* Both copies kept an object exactly 250 pixels from the first and dropped
\* one at the first's position with another name.
C8_Witness ==
    /\ dd_objects = << InterestingObject(0, 0, "a"), InterestingObject(0, 0, "c"),
                       InterestingObject(150, 200, "a") >>
    /\ dd_main = Return(<< InterestingObject(0, 0, "a"),
                           InterestingObject(150, 200, "a") >>)
    /\ dd_vlm = dd_main

\* C9: deduplicating a result of the function gives that result again.
C9_Idempotent == Returned(dd_again) => dd_again.value = dd_main.value

\* A result shorter than its input, of two objects, was deduplicated again.
C9_Witness ==
    /\ Returned(dd_again)
    /\ Len(dd_main.value) = 2
    /\ Len(dd_objects) = 3

(***************************************************************************)
(* The claim about identify_location_*, under IdentifySpec.                 *)
(***************************************************************************)
\* C10: either identifier, called with fewer than 3 images, raises the
\* "at least 3 images" ValueError and has sent no request; called with 3 or
\* more it sends its request and does not end with that error.
C10_FailsFastOnTooFewImages ==
    il_call # NotCalled =>
        /\ Len(il_images) < 3 <=>
               /\ il_call.result.raised = "ValueError"
               /\ il_call.result.message =
                      << "At least 3 images are required, got: ", Len(il_images) >>
        /\ Len(il_images) < 3 => il_call.sent = << >>
        /\ Len(il_images) >= 3 => Len(il_call.sent) = 1

\* A call with two images raised and sent nothing.
C10_Witness ==
    /\ il_call # NotCalled
    /\ Len(il_images) = 2
    /\ il_call.sent = << >>
    /\ il_call.result =
           RaiseMsg("ValueError", << "At least 3 images are required, got: ", 2 >>)

(***************************************************************************)
(* StatsSpec: the statistics of one of the games and of all of them.        *)
(***************************************************************************)
StatsInit ==
    /\ st_all_games \in AllGamesSet
    /\ st_game = 0
    /\ st_game_stats = NotCalled
    /\ st_aggregate = NotCalled
    /\ ScoreIdle /\ DedupIdle /\ IdentifyIdle /\ ResultsIdle /\ MainIdle /\ ErrorIdle

\* print_game_results(all_games[g])
PrintGameResults(g) ==
    /\ st_game = 0
    /\ st_game' = g
    /\ st_game_stats' = print_game_results(st_all_games[g])
    /\ UNCHANGED << st_all_games, st_aggregate >>
    /\ UNCHANGED << scoreVars, dedupVars, identifyVars, resultsVars, mainVars, errorVars >>

\* print_aggregate_results(all_games)
PrintAggregateResults ==
    /\ st_aggregate = NotCalled
    /\ st_aggregate' = print_aggregate_results(st_all_games)
    /\ UNCHANGED << st_all_games, st_game, st_game_stats >>
    /\ UNCHANGED << scoreVars, dedupVars, identifyVars, resultsVars, mainVars, errorVars >>

StatsNext ==
    \/ \E g \in 1..Len(st_all_games) : PrintGameResults(g)
    \/ PrintAggregateResults

StatsSpec == StatsInit /\ [][StatsNext]_vars

(***************************************************************************)
(* The claims about the statistics, under StatsSpec.                        *)
(***************************************************************************)
\* The guesses of one model in a list of rounds.
GuessesIn(rounds, model) ==
    [i \in 1..Len(rounds) |->
        IF model = "gpt4o" THEN rounds[i].gpt4o_guess ELSE rounds[i].o1_guess]

\* Every row of statistics computed so far, with the guesses it is about.
StatsCases ==
    (IF Returned(st_game_stats)
     THEN {[row |-> st_game_stats.value.gpt4o,
            guesses |-> GuessesIn(st_all_games[st_game].rounds, "gpt4o")],
           [row |-> st_game_stats.value.o1,
            guesses |-> GuessesIn(st_all_games[st_game].rounds, "o1")]}
     ELSE {})
    \cup
    (IF Returned(st_aggregate)
     THEN {[row |-> st_aggregate.value.gpt4o,
            guesses |-> GuessesIn(all_rounds(st_all_games), "gpt4o")],
           [row |-> st_aggregate.value.o1,
            guesses |-> GuessesIn(all_rounds(st_all_games), "o1")]}
     ELSE {})

DistancesOf(guesses) == [i \in 1..Len(guesses) |-> guesses[i].distance_km]

\* C15: the median of either from_rounds is the element at index len // 2
\* of the distances in ascending order (at most len // 2 distances are
\* smaller, more than len // 2 are not larger), one of the distances and
\* never a value between two; [1.0, 3.0, 2.0] gives 2.0 and
\* [1.0, 2.0, 3.0, 4.0] gives 3.0 (distances in units of 0.0001 km).
C15_MedianIsElementAtHalfLength ==
    \A c \in StatsCases :
        LET ds == DistancesOf(c.guesses)
            m == c.row.median_distance_km
        IN  /\ \E i \in 1..Len(ds) : ds[i] = m
            /\ Cardinality({i \in 1..Len(ds) : ds[i] < m}) <= Len(ds) \div 2
            /\ Cardinality({i \in 1..Len(ds) : ds[i] <= m}) > Len(ds) \div 2
            /\ ds = << 10000, 30000, 20000 >> => m = 20000
            /\ ds = << 10000, 20000, 30000, 40000 >> => m = 30000

\* A game of distances [1.0, 3.0, 2.0] reported 2.0, and the four rounds of
\* all games together reported 3.0.
C15_Witness ==
    /\ Returned(st_game_stats)
    /\ Returned(st_aggregate)
    /\ DistancesOf(GuessesIn(st_all_games[st_game].rounds, "gpt4o"))
           = << 10000, 30000, 20000 >>
    /\ st_game_stats.value.gpt4o.median_distance_km = 20000
    /\ Len(all_rounds(st_all_games)) = 4
    /\ st_aggregate.value.gpt4o.median_distance_km = 30000

\* C16, as claimed: for an even number of distances the median is the
\* lower-middle element, the one at position len / 2 (counted from 1) of
\* the ascending order.
C16_MedianIsLowerMiddle ==
    \A c \in StatsCases :
        LET ds == DistancesOf(c.guesses)
            m == c.row.median_distance_km
        IN  Len(ds) % 2 = 0 =>
                /\ Cardinality({i \in 1..Len(ds) : ds[i] < m}) < Len(ds) \div 2
                /\ Cardinality({i \in 1..Len(ds) : ds[i] <= m}) >= Len(ds) \div 2

\* C16, amended: for an even number of distances the median is the
\* upper-middle element: in an ascending arrangement of the distances it is
\* the one at position len / 2 + 1 (counted from 1), the larger of the two
\* middle elements.
C16_MedianIsUpperMiddle ==
    \A c \in StatsCases :
        LET ds == DistancesOf(c.guesses)
            n == Len(ds)
            m == c.row.median_distance_km
        IN  n % 2 = 0 =>
                \E p \in [1..n -> 1..n] :
                    /\ \A i, j \in 1..n : i # j => p[i] # p[j]
                    /\ \A i \in 1..(n - 1) : ds[p[i]] <= ds[p[i + 1]]
                    /\ m = ds[p[n \div 2 + 1]]
                    /\ m >= ds[p[n \div 2]]

\* Two rounds at 1.0 and 3.0 km reported 3.0.
C16_Witness ==
    /\ Returned(st_aggregate)
    /\ DistancesOf(GuessesIn(all_rounds(st_all_games), "gpt4o")) = << 10000, 30000 >>
    /\ st_aggregate.value.gpt4o.median_distance_km = 30000

\* The total score of each game for one model.
GameTotals(all_games, model) ==
    {sum([i \in 1..Len(all_games[g].rounds) |->
              GuessesIn(all_games[g].rounds, model)[i].score]) :
        g \in 1..Len(all_games)}

\* C17, as claimed: the best and worst game scores of the aggregate are the
\* largest and the smallest of the games' own total scores, also when games
\* recorded fewer than 5 rounds.
C17_BestWorstArePerGame ==
    Returned(st_aggregate) =>
        \A model \in {"gpt4o", "o1"} :
            LET row == IF model = "gpt4o" THEN st_aggregate.value.gpt4o
                       ELSE st_aggregate.value.o1
                totals == GameTotals(st_all_games, model)
            IN  /\ row.max_game_score \in totals
                /\ row.min_game_score \in totals
                /\ \A t \in totals : row.min_game_score <= t /\ t <= row.max_game_score

(***************************************************************************)
(* More claims about GameResults, under ResultsSpec.                        *)
(***************************************************************************)
\* C18, as claimed: a call of save_round_results leaves every earlier
\* RoundResult unchanged at its position, a call that returns adds exactly
\* one element at the end, and the round_number values in rounds are
\* strictly increasing in sequence order.
C18_AppendOnlyOrdered ==
    [][/\ Len(game_results'.rounds) >= Len(game_results.rounds)
       /\ SubSeq(game_results'.rounds, 1, Len(game_results.rounds))
              = game_results.rounds
       /\ gr_returned' = gr_returned + 1
              => Len(game_results'.rounds) = Len(game_results.rounds) + 1
       /\ \A i, j \in 1..Len(game_results'.rounds) :
              i < j => game_results'.rounds[i].round_number
                           < game_results'.rounds[j].round_number]_vars

\* C19: the gpt4o guess of the RoundResult just recorded carries
\* actual_score, and in every recorded RoundResult the o1 guess carries
\* predict_score for the round's true coordinate
\* game_state.rounds[round_number - 1] and both distances are the haversine
\* distance from that coordinate to the guess.
C19_ScoresAndDistancesRecorded ==
    /\ gr_check # NotCalled =>
           LET last == game_results.rounds[Len(game_results.rounds)]
           IN  /\ last.gpt4o_guess.score = gr_args.actual_score
               /\ last.gpt4o_guess.latitude = gr_args.gpt4o_location.latitude
               /\ last.gpt4o_guess.longitude = gr_args.gpt4o_location.longitude
               /\ last.o1_guess.latitude = gr_args.o1_location.latitude
               /\ last.o1_guess.longitude = gr_args.o1_location.longitude
               /\ last.round_number = gr_args.round_number
    /\ \A i \in 1..Len(game_results.rounds) :
           LET r == game_results.rounds[i]
               true == gr_game_state.rounds[r.round_number]
           IN  /\ r.actual_location = true
               /\ r.o1_guess.score =
                      predict_score(gr_game_state, true.lat, true.lng,
                                    r.o1_guess.latitude, r.o1_guess.longitude).value
               /\ r.gpt4o_guess.distance_km =
                      haversine_distance(true.lat, true.lng,
                                         r.gpt4o_guess.latitude,
                                         r.gpt4o_guess.longitude)
               /\ r.o1_guess.distance_km =
                      haversine_distance(true.lat, true.lng,
                                         r.o1_guess.latitude,
                                         r.o1_guess.longitude)

\* A call returned a round whose reported score 4999 is not what
\* predict_score gives for the gpt4o guess, and whose o1 score is predicted.
C19_Witness ==
    /\ Returned(gr_result)
    /\ gr_args.actual_score = 4999
    /\ gr_result.value.gpt4o_guess.score = 4999
    /\ gr_result.value.o1_guess.score = 378
    /\ gr_result.value.o1_guess.distance_km > 0

\* C20: each distance total is the sum of that model's distance_km over the
\* recorded rounds, whether the calls returned or raised.
C20_TotalsAreSums ==
    /\ game_results.total_distance_gpt4o =
           sum([i \in 1..Len(game_results.rounds) |->
                    game_results.rounds[i].gpt4o_guess.distance_km])
    /\ game_results.total_distance_o1 =
           sum([i \in 1..Len(game_results.rounds) |->
                    game_results.rounds[i].o1_guess.distance_km])

\* Two rounds are recorded, one of them by a call that raised the mismatch
\* error, and the two totals differ.
C20_Witness ==
    /\ Len(game_results.rounds) = 2
    /\ gr_returned = 1
    /\ gr_result = Mismatch
    /\ game_results.total_distance_gpt4o > 0
    /\ game_results.total_distance_gpt4o # game_results.total_distance_o1

(***************************************************************************)
(* MainSpec: one run of main(), statement by statement, with every          *)
(* collaborator answering as it may; or one call of _print_final_score,     *)
(* which main does not reach.                                               *)
(***************************************************************************)
MainInit ==
    /\ ScoreIdle /\ DedupIdle /\ IdentifyIdle /\ ResultsIdle /\ StatsIdle /\ ErrorIdle
    /\ mn_entry \in EntrySet
    /\ mn_pc = (IF mn_entry = "main" THEN "_get_page" ELSE "_print_final_score")
    /\ mn_iter = 0
    /\ mn_round_number = 0
    /\ mn_game_token = (IF mn_entry = "main" THEN "" ELSE "tok")
    /\ mn_all_screenshots = << >>
    /\ mn_identified_location = NotCalled
    /\ mn_player = NotCalled
    /\ mn_log = << >>
    /\ mn_result = NotCalled

\* The statement as it would be if main went on after an exception.
MainCallOnward(name, input, call, next) ==
    /\ mn_log' = Append(mn_log, Step(name, mn_round_number, input, call))
    /\ mn_pc' = next
    /\ mn_result' = mn_result

\* A statement of main that calls a function: its outcome is recorded, and
\* an exception ends main, which catches none.
MainCall(name, input, call, next) ==
    /\ mn_log' = Append(mn_log, Step(name, mn_round_number, input, call))
    /\ mn_pc' = (IF Returned(call.result) THEN next ELSE "raised")
    /\ mn_result' = (IF Returned(call.result) THEN mn_result ELSE call.result)

\* page = _get_page(p)
GetPage(cookies) ==
    /\ mn_pc = "_get_page"
    /\ MainCall("_get_page", cookies, [result |-> cookies], "start_new_game")
    /\ UNCHANGED << mn_entry, mn_iter, mn_round_number, mn_game_token, mn_all_screenshots, mn_identified_location, mn_player >>
    /\ UNCHANGED << scoreVars, dedupVars, identifyVars, resultsVars, statsVars, errorVars >>

\* game_token = geoguessr.start_new_game(page)
StartNewGame(page) ==
    /\ mn_pc = "start_new_game"
    /\ \E call \in {start_new_game(page)} :
           /\ MainCall("start_new_game", page[1], call, "for")
           /\ mn_game_token' = (IF Returned(call.result) THEN call.result.value
                                ELSE mn_game_token)
    /\ UNCHANGED << mn_entry, mn_iter, mn_round_number, mn_all_screenshots, mn_identified_location, mn_player >>
    /\ UNCHANGED << scoreVars, dedupVars, identifyVars, resultsVars, statsVars, errorVars >>

\* for round_number in range(1, 2): the next round_number, or the statement
\* after the loop.
ForRound ==
    /\ mn_pc = "for"
    /\ IF mn_iter < Len(MainRounds)
       THEN /\ mn_iter' = mn_iter + 1
            /\ mn_round_number' = MainRounds[mn_iter + 1]
            /\ mn_pc' = "_start_round"
       ELSE /\ mn_pc' = "_print_final_score"
            /\ UNCHANGED << mn_iter, mn_round_number >>
    /\ UNCHANGED << mn_entry, mn_game_token, mn_all_screenshots, mn_identified_location, mn_player, mn_log, mn_result >>
    /\ UNCHANGED << scoreVars, dedupVars, identifyVars, resultsVars, statsVars, errorVars >>

\* _start_round(page)
StartRound(browser) ==
    /\ mn_pc = "_start_round"
    /\ MainCall("_start_round", browser, [result |-> browser], "explore_location")
    /\ UNCHANGED << mn_entry, mn_iter, mn_round_number, mn_game_token, mn_all_screenshots, mn_identified_location, mn_player >>
    /\ UNCHANGED << scoreVars, dedupVars, identifyVars, resultsVars, statsVars, errorVars >>

\* all_screenshots = explore_location(page)
ExploreLocation(responses) ==
    /\ mn_pc = "explore_location"
    /\ \E screenshots \in {explore_location(responses)} :
           /\ MainCall("explore_location", responses, [result |-> screenshots],
                       "save_base64_images")
           /\ mn_all_screenshots' = (IF Returned(screenshots) THEN screenshots.value
                                     ELSE mn_all_screenshots)
    /\ UNCHANGED << mn_entry, mn_iter, mn_round_number, mn_game_token, mn_identified_location, mn_player >>
    /\ UNCHANGED << scoreVars, dedupVars, identifyVars, resultsVars, statsVars, errorVars >>

\* save_base64_images(all_screenshots, game_token, round_number)
SaveBase64Images(disk) ==
    /\ mn_pc = "save_base64_images"
    /\ MainCall("save_base64_images", mn_all_screenshots,
                [result |-> save_base64_images(mn_all_screenshots, mn_game_token,
                                               mn_round_number, disk)],
                "identify_location")
    /\ UNCHANGED << mn_entry, mn_iter, mn_round_number, mn_game_token, mn_all_screenshots, mn_identified_location, mn_player >>
    /\ UNCHANGED << scoreVars, dedupVars, identifyVars, resultsVars, statsVars, errorVars >>

\* identified_location = vlm.identify_location(all_screenshots)
IdentifyLocation ==
    /\ mn_pc = "identify_location"
    /\ \E call \in IdentifyOutcomes(mn_all_screenshots) :
           /\ MainCall("identify_location", mn_all_screenshots, call, "submit_guess")
           /\ mn_identified_location' = (IF Returned(call.result) THEN call.result.value
                                         ELSE mn_identified_location)
    /\ UNCHANGED << mn_entry, mn_iter, mn_round_number, mn_game_token, mn_all_screenshots, mn_player >>
    /\ UNCHANGED << scoreVars, dedupVars, identifyVars, resultsVars, statsVars, errorVars >>

\* player = geoguessr.submit_guess(page, game_token, latitude, longitude)
SubmitGuess(page) ==
    /\ mn_pc = "submit_guess"
    /\ \E call \in {submit_guess(page, mn_game_token,
                                 mn_identified_location.latitude,
                                 mn_identified_location.longitude)} :
           /\ MainCall("submit_guess", page[1], call, "_print_round_score")
           /\ mn_player' = (IF Returned(call.result) THEN call.result.value
                            ELSE mn_player)
    /\ UNCHANGED << mn_entry, mn_iter, mn_round_number, mn_game_token, mn_all_screenshots, mn_identified_location >>
    /\ UNCHANGED << scoreVars, dedupVars, identifyVars, resultsVars, statsVars, errorVars >>

\* _print_round_score(player, round_number, identified_location), and back
\* to the head of the loop.
PrintRoundScore ==
    /\ mn_pc = "_print_round_score"
    /\ MainCall("_print_round_score", mn_player,
                [result |-> print_round_score(mn_player, mn_round_number,
                                              mn_identified_location)],
                "for")
    /\ UNCHANGED << mn_entry, mn_iter, mn_round_number, mn_game_token, mn_all_screenshots, mn_identified_location, mn_player >>
    /\ UNCHANGED << scoreVars, dedupVars, identifyVars, resultsVars, statsVars, errorVars >>

\* _print_final_score(page, game_token), the last statement of main.
PrintFinalScore(page) ==
    /\ mn_pc = "_print_final_score"
    /\ \E call \in {print_final_score(page, mn_game_token)} :
           /\ mn_log' = Append(mn_log, Step("_print_final_score", mn_round_number,
                                            page[1], call))
           /\ mn_pc' = (IF Returned(call.result) THEN "returned" ELSE "raised")
           /\ mn_result' = (IF Returned(call.result) THEN Return("None")
                            ELSE call.result)
    /\ UNCHANGED << mn_entry, mn_iter, mn_round_number, mn_game_token, mn_all_screenshots, mn_identified_location, mn_player >>
    /\ UNCHANGED << scoreVars, dedupVars, identifyVars, resultsVars, statsVars, errorVars >>

MainNext ==
    \/ \E cookies \in CookiesSet : GetPage(cookies)
    \/ \E page \in PageSet : StartNewGame(page)
    \/ ForRound
    \/ \E browser \in BrowserSet : StartRound(browser)
    \/ \E responses \in DetectionsSet : ExploreLocation(responses)
    \/ \E disk \in DiskSet : SaveBase64Images(disk)
    \/ IdentifyLocation
    \/ \E page \in PageSet : SubmitGuess(page)
    \/ PrintRoundScore
    \/ \E page \in PageSet : PrintFinalScore(page)

MainSpec == MainInit /\ [][MainNext]_vars

(***************************************************************************)
(* Claims about main() and the game API, under MainSpec.                    *)
(***************************************************************************)
StepsNamed(name) == SelectSeq(mn_log, LAMBDA s : s.name = name)

\* The round numbers of the rounds main has started, in order.
RoundsStarted ==
    [i \in 1..Len(StepsNamed("_start_round")) |->
         StepsNamed("_start_round")[i].round_number]

\* The steps of main that call a collaborator: the browser, the disk, the
\* inference backend, the game API.
CollaboratorSteps ==
    {"_get_page", "start_new_game", "_start_round", "explore_location",
     "save_base64_images", "identify_location", "submit_guess"}

MainEnded == mn_entry = "main" /\ mn_pc \in {"returned", "raised"}

\* C11, as claimed: a run of main in which every collaborator call
\* succeeded has started rounds 1, 2, 3, 4, 5 in that order and has then
\* printed the final score.
C11_FiveRoundsInOrder ==
    (/\ MainEnded
     /\ \A i \in 1..Len(mn_log) :
            mn_log[i].name \in CollaboratorSteps
                => Returned(mn_log[i].call.result))
        => /\ RoundsStarted = << 1, 2, 3, 4, 5 >>
           /\ mn_log[Len(mn_log)].name = "_print_final_score"

\* The list explore_location returns when nothing fails: a full-frame
\* screenshot of each of the five views.
FullList(screenshots) ==
    Len(SelectSeq(screenshots, LAMBDA shot : shot.zoomed = << >>))
        = Len(ExplorePans)

ApiSteps == {"start_new_game", "submit_guess", "_print_final_score"}

\* C13: a game API call that got a response that is not ok raised the
\* plain Exception, after exactly one request and with nothing handed to
\* _parse_game_state; it is the last step taken, and the function called
\* has ended with that exception.
C13_TransportFailureAborts ==
    \A i \in 1..Len(mn_log) :
        (mn_log[i].name \in ApiSteps /\ ~mn_log[i].input.ok) =>
            /\ mn_log[i].call.result.raised = "Exception"
            /\ Len(mn_log[i].call.sent) = 1
            /\ mn_log[i].call.parsed = << >>
            /\ i = Len(mn_log)
            /\ mn_pc = "raised"
            /\ mn_result = mn_log[i].call.result
            /\ ~ENABLED MainNext

\* start_new_game got status 500 in main, which ended with the exception
\* before any round.
C13_Witness ==
    /\ mn_entry = "main"
    /\ Len(mn_log) = 2
    /\ mn_log[2].name = "start_new_game"
    /\ mn_log[2].input = HttpResponse(FALSE, 500, GameBody)
    /\ mn_log[2].call.result.raised = "Exception"
    /\ mn_pc = "raised"
    /\ mn_round_number = 0

(***************************************************************************)
(* ErrorSpec: a caller makes one call of _check_score_prediction, one call  *)
(* of a game API function and one call of identify_location_*, in any       *)
(* order, and keeps what each raised or returned.                           *)
(***************************************************************************)
ErrorInit ==
    /\ ScoreIdle /\ DedupIdle /\ IdentifyIdle /\ ResultsIdle /\ StatsIdle /\ MainIdle
    /\ er_check = NotCalled
    /\ er_api = NotCalled
    /\ er_identify = NotCalled

CheckScorePrediction(game_state, location, actual_score) ==
    /\ er_check = NotCalled
    /\ \E check \in {check_score_prediction(GameResults(<< >>, 0, 0), game_state, location.latitude, location.longitude, actual_score)} :
           er_check' = [actual_score |-> actual_score,
                        predicted_score |-> check.predicted_score,
                        result |-> check.outcome]
    /\ UNCHANGED << er_api, er_identify >>
    /\ UNCHANGED << scoreVars, dedupVars, identifyVars, resultsVars, statsVars, mainVars >>

\* What the caller keeps of a call of a game API function.
ApiOutcome(function, page, call) ==
    [function |-> function, response |-> page[1], result |-> call.result]

CallStartNewGame(page) ==
    /\ er_api = NotCalled
    /\ er_api' = ApiOutcome("start_new_game", page, start_new_game(page))
    /\ UNCHANGED << er_check, er_identify >>
    /\ UNCHANGED << scoreVars, dedupVars, identifyVars, resultsVars, statsVars, mainVars >>

CallSubmitGuess(page, location) ==
    /\ er_api = NotCalled
    /\ er_api' = ApiOutcome("submit_guess", page,
                            submit_guess(page, "tok", location.latitude,
                                         location.longitude))
    /\ UNCHANGED << er_check, er_identify >>
    /\ UNCHANGED << scoreVars, dedupVars, identifyVars, resultsVars, statsVars, mainVars >>

CallGetGameState(page) ==
    /\ er_api = NotCalled
    /\ er_api' = ApiOutcome("get_game_state", page, get_game_state(page, "tok"))
    /\ UNCHANGED << er_check, er_identify >>
    /\ UNCHANGED << scoreVars, dedupVars, identifyVars, resultsVars, statsVars, mainVars >>

\* What the caller keeps of a call of identify_location_*.
IdentifyOutcome(function, images_base64, call) ==
    [function |-> function, images |-> Len(images_base64), result |-> call.result]

CallIdentifyLocationO1(images_base64, response) ==
    /\ er_identify = NotCalled
    /\ er_identify' = IdentifyOutcome("identify_location_o1", images_base64,
                          identify_location_o1(images_base64, response))
    /\ UNCHANGED << er_check, er_api >>
    /\ UNCHANGED << scoreVars, dedupVars, identifyVars, resultsVars, statsVars, mainVars >>

CallIdentifyLocationGpt4o(images_base64, response) ==
    /\ er_identify = NotCalled
    /\ er_identify' = IdentifyOutcome("identify_location_gpt4o", images_base64,
                          identify_location_gpt4o(images_base64, response))
    /\ UNCHANGED << er_check, er_api >>
    /\ UNCHANGED << scoreVars, dedupVars, identifyVars, resultsVars, statsVars, mainVars >>

ErrorNext ==
    \/ \E game_state \in GameStateSet, locations \in LocationSet, actual_score \in ActualScoreSet :
           CheckScorePrediction(game_state, locations[1], actual_score)
    \/ \E page \in PageSet : CallStartNewGame(page)
    \/ \E page \in PageSet, locations \in LocationSet : CallSubmitGuess(page, locations[1])
    \/ \E page \in PageSet : CallGetGameState(page)
    \/ \E images_base64 \in SeqsUpTo(ImageSet, MaxImages), response \in ResponseSet :
           CallIdentifyLocationO1(images_base64, response)
    \/ \E images_base64 \in SeqsUpTo(ImageSet, MaxImages), response \in ResponseSet :
           CallIdentifyLocationGpt4o(images_base64, response)

ErrorSpec == ErrorInit /\ [][ErrorNext]_vars

(***************************************************************************)
(* The claim about the kinds of the errors, under ErrorSpec.                *)
(***************************************************************************)
\* The validation found the reported score more than one point off.
ScoreMismatched ==
    /\ er_check # NotCalled
    /\ Returned(er_check.predicted_score)
    /\ Abs(er_check.predicted_score.value - er_check.actual_score) > 1

\* The game API answered with a response that is not ok.
TransportFailed == er_api # NotCalled /\ ~er_api.response.ok

\* Fewer than three images were given to the identification.
TooFewGiven == er_identify # NotCalled /\ er_identify.images < 3

\* C14, as claimed: the exception raised for a score mismatch, the one
\* raised for a response that is not ok and the one raised for fewer than 3
\* images are of three different kinds.
C14_ErrorKindsDistinct ==
    (ScoreMismatched /\ TransportFailed /\ TooFewGiven) =>
        /\ ~Returned(er_check.result)
        /\ ~Returned(er_api.result)
        /\ ~Returned(er_identify.result)
        /\ er_check.result.raised # er_api.result.raised
        /\ er_check.result.raised # er_identify.result.raised
        /\ er_api.result.raised # er_identify.result.raised

(***************************************************************************)
(* The claim about the two copies of the deduplicator, under DedupSpec.     *)
(***************************************************************************)
\* C22: main.deduplicate_interesting_objects and
\* vlm.deduplicate_interesting_objects, called with the same input, return
\* equal sequences, the empty input included.
C22_CopiesAgree ==
    (Returned(dd_main) /\ Returned(dd_vlm)) => dd_main.value = dd_vlm.value

\* Both copies were called with the empty input, where vlm's copy takes its
\* early return, and both returned the empty sequence.
C22_Witness ==
    /\ dd_objects = << >>
    /\ dd_main = Return(<< >>)
    /\ dd_vlm = Return(<< >>)

(***************************************************************************)
(* The claim about explore_location, under MainSpec.                        *)
(***************************************************************************)
\* The objects kept by the deduplication in the k-th pan step, for the
\* answers the object detection gave.
KeptInStep(responses, k) ==
    deduplicate_interesting_objects(
        identify_objects(Screenshot(k, << >>), responses[k]).value)

\* The place of the k-th full-frame screenshot in the list: after the
\* frames and the zoomed screenshots of the steps before it.
FramePlace(responses, k) ==
    k + sum([j \in 1..(k - 1) |-> Len(KeptInStep(responses, j))])

\* C21: a list explore_location returns has at least 5 screenshots, exactly
\* 5 plus the number of objects kept by the deduplication over the 5 pan
\* steps; the full-frame screenshot of each step comes right before the
\* zoomed screenshots of that step's kept objects; and neither identifier
\* rejects the list for having fewer than 3 images.
C21_ExploreReturnsFramesAndZooms ==
    \A i \in 1..Len(mn_log) :
        (mn_log[i].name = "explore_location" /\ Returned(mn_log[i].call.result)) =>
            /\ Len(mn_log[i].call.result.value) >= 5
            /\ Len(mn_log[i].call.result.value)
                   = 5 + sum([k \in 1..5 |-> Len(KeptInStep(mn_log[i].input, k))])
            /\ \A k \in 1..5 :
                   /\ mn_log[i].call.result.value[FramePlace(mn_log[i].input, k)]
                          = Screenshot(k, << >>)
                   /\ \A n \in 1..Len(KeptInStep(mn_log[i].input, k)) :
                          mn_log[i].call.result.value[FramePlace(mn_log[i].input, k) + n]
                              = Screenshot(k, << KeptInStep(mn_log[i].input, k)[n] >>)
            /\ \A response \in ResponseSet :
                   /\ identify_location_gpt4o(mn_log[i].call.result.value, response).sent
                          # << >>
                   /\ identify_location_o1(mn_log[i].call.result.value, response).sent
                          # << >>
                   /\ identify_location_gpt4o(mn_log[i].call.result.value, response).result
                          # TooFewImages(Len(mn_log[i].call.result.value))

\* explore_location has returned nine screenshots: the frame of the first
\* view with the zoomed views of the two objects kept of the three found
\* there, frames alone for three views, and two zoomed views for one more.
C21_Witness ==
    /\ mn_log # << >>
    /\ mn_log[Len(mn_log)].name = "explore_location"
    /\ Returned(mn_log[Len(mn_log)].call.result)
    /\ Len(mn_all_screenshots) = 9
    /\ mn_all_screenshots[1] = Screenshot(1, << >>)
    /\ mn_all_screenshots[2] = Screenshot(1, << InterestingObject(0, 0, "a") >>)
    /\ mn_all_screenshots[3] = Screenshot(1, << InterestingObject(1000, 1000, "c") >>)
    /\ mn_all_screenshots[4] = Screenshot(2, << >>)
    /\ mn_all_screenshots[5] = Screenshot(3, << >>)
====
